---------------------------- MODULE Spec2Model ----------------------------
(***************************************************************************)
(* Model of the entity resolution and compliance store of                  *)
(* nordsecureai-layer1: the fragment linker (layer1_linker/linker.py), the *)
(* golden record store (layer1_mapper/mapper.py, an SQLite database), the  *)
(* audit trail (security/audit_logger.py, one JSON file per entry) and the *)
(* flows of app.py that drive them.                                        *)
(*                                                                         *)
(* Text is a sequence of one-character strings, so that lower(), the       *)
(* formatting of entity IDs and difflib's matching are computed and not    *)
(* assumed.  A float that the code obtains as a quotient of two small      *)
(* integers is the reduced fraction <<numerator, denominator>>.            *)
(***************************************************************************)
EXTENDS Integers, Sequences, FiniteSets, TLC

(***************************************************************************)
(* Bounds of the model.                                                    *)
(***************************************************************************)
\* Fragment rows ever inserted (the AUTOINCREMENT sequence of fragments).
MaxFragId == 3
\* Erasure rows ever inserted (the AUTOINCREMENT sequence of erasures).
MaxErasureId == 1
\* Seconds the wall clock advances.
MaxClock == 1
\* log_*_operation calls made on the audit trail.
MaxCalls == 3
\* The number of cluster_fragments results a caller holds at a time.
MaxLinks == 2

(***************************************************************************)
(* Text.                                                                   *)
(***************************************************************************)
\* Python's None, where the code stores None in a place that holds text.
None == <<"<None>">>

UpperCase == <<"A","B","C","D","E","F","G","H","I","J","K","L","M",
               "N","O","P","Q","R","S","T","U","V","W","X","Y","Z">>
LowerCase == <<"a","b","c","d","e","f","g","h","i","j","k","l","m",
               "n","o","p","q","r","s","t","u","v","w","x","y","z">>
DigitChar == <<"0","1","2","3","4","5","6","7","8","9">>

\* str.lower() of one character.
LowerChar(c) ==
    IF \E k \in 1..Len(UpperCase) : UpperCase[k] = c
    THEN LowerCase[CHOOSE k \in 1..Len(UpperCase) : UpperCase[k] = c]
    ELSE c

\* str.lower().
Lower(s) == [k \in 1..Len(s) |-> LowerChar(s[k])]

\* The decimal digits of a natural number, most significant first.
RECURSIVE DecDigits(_)
DecDigits(n) ==
    IF n < 10 THEN <<DigitChar[n + 1]>>
    ELSE DecDigits(n \div 10) \o <<DigitChar[(n % 10) + 1]>>

\* The format specification 06d: zero-padded to a width of at least six.
Format06d(n) ==
    LET d == DecDigits(n)
    IN  IF Len(d) >= 6 THEN d ELSE [k \in 1..(6 - Len(d)) |-> "0"] \o d

\* f"E-{entity_counter+1:06d}", given entity_counter+1.
EntityIdOf(n) == <<"E", "-">> \o Format06d(n)

(***************************************************************************)
(* Fractions, for the floats of the linker.                                *)
(***************************************************************************)
RECURSIVE Gcd(_, _)
Gcd(a, b) == IF b = 0 THEN a ELSE Gcd(b, a % b)

Frac(n, d) == LET g == Gcd(n, d) IN <<n \div g, d \div g>>

\* x >= y on fractions.
FracGeq(x, y) == x[1] * y[2] >= y[1] * x[2]

\* max() of a non-empty set of fractions.
FracMax(S) == CHOOSE x \in S : \A y \in S : FracGeq(x, y)

(***************************************************************************)
(* difflib.SequenceMatcher(None, a, b).ratio(), for sequences shorter than *)
(* 200 elements (the automatic junk heuristic starts at 200) and no junk.  *)
(***************************************************************************)
\* Length of the common run of a and b that ends at a[i], b[j] and stays
\* within a[alo..], b[blo..] (1-based, inclusive): the k of find_longest_match.
RECURSIVE RunLength(_, _, _, _, _, _)
RunLength(a, b, i, j, alo, blo) ==
    IF i < alo \/ j < blo THEN 0
    ELSE IF a[i] # b[j] THEN 0
    ELSE 1 + RunLength(a, b, i - 1, j - 1, alo, blo)

\* find_longest_match(alo, ahi, blo, bhi) on 1-based inclusive windows:
\* <<besti, bestj, bestsize>>, the longest block, of those the one that
\* starts earliest in a, and of those the one that starts earliest in b.
FindLongestMatch(a, b, alo, ahi, blo, bhi) ==
    LET ends == (alo..ahi) \X (blo..bhi)
        size(e) == RunLength(a, b, e[1], e[2], alo, blo)
        best == IF ends = {} THEN 0
                ELSE CHOOSE k \in 0..(ahi - alo + 1) :
                        /\ \E e \in ends : size(e) = k
                        /\ \A e \in ends : size(e) <= k
    IN  IF best = 0 THEN <<alo, blo, 0>>
        ELSE LET cands == {e \in ends : size(e) = best}
                 first == CHOOSE e \in cands : \A o \in cands :
                             \/ e[1] < o[1]
                             \/ (e[1] = o[1] /\ e[2] <= o[2])
             IN  <<first[1] - best + 1, first[2] - best + 1, best>>

\* Sum of the sizes of get_matching_blocks(): the longest block, then the
\* same to its left and to its right.
RECURSIVE MatchCount(_, _, _, _, _, _)
MatchCount(a, b, alo, ahi, blo, bhi) ==
    IF alo > ahi \/ blo > bhi THEN 0
    ELSE LET m == FindLongestMatch(a, b, alo, ahi, blo, bhi)
         IN  IF m[3] = 0 THEN 0
             ELSE m[3]
                  + MatchCount(a, b, alo, m[1] - 1, blo, m[2] - 1)
                  + MatchCount(a, b, m[1] + m[3], ahi, m[2] + m[3], bhi)

\* ratio(): 2.0 * matches / (len(a) + len(b)), and 1.0 for two empty sequences.
Ratio(a, b) ==
    IF Len(a) + Len(b) = 0 THEN <<1, 1>>
    ELSE Frac(2 * MatchCount(a, b, 1, Len(a), 1, Len(b)), Len(a) + Len(b))

(***************************************************************************)
(* Fragments.  A fragment is the dict {"type", "value", "source"} of the   *)
(* scanner; Missing stands for an absent "value" key and NaN for the cell  *)
(* pandas fills in for it.                                                 *)
(***************************************************************************)
Missing == <<"<missing>">>
NaN == <<"<NaN>">>

\* str(x) for the values a "value" cell can hold.
PyStr(v) ==
    IF v = None THEN <<"N", "o", "n", "e">>
    ELSE IF v = NaN THEN <<"n", "a", "n">>
    ELSE v

\* Whether x.lower() exists: x is a str (None and NaN have no lower()).
IsStr(v) == v # None /\ v # NaN /\ v # Missing

(***************************************************************************)
(* layer1_linker.cluster_fragments.                                        *)
(***************************************************************************)
\* pd.DataFrame(fragments) with the columns entity_id = None, score = 0.0.
DataFrame(fragments) ==
    [i \in 1..Len(fragments) |->
        [type      |-> fragments[i].type,
         value     |-> IF fragments[i].value = Missing THEN NaN
                       ELSE fragments[i].value,
         source    |-> fragments[i].source,
         entity_id |-> None,
         score     |-> <<0, 1>>]]

\* Mutant: the check of line 17 is left out, the loop runs on any frame.
HasValueColumnAlways(fragments) == TRUE

\* "value" in df.columns: some fragment of the batch has the key.
HasValueColumn(fragments) ==
    \E i \in 1..Len(fragments) : fragments[i].value # Missing

\* max([SequenceMatcher(None, val, ev).ratio() for ev in existing_vals] or [0])
Similarity(val, members) ==
    IF Len(members) = 0 THEN <<0, 1>>
    ELSE FracMax({Ratio(val, Lower(members[k].value)) : k \in 1..Len(members)})

\* Mutant: the fragment joins the most similar of the clusters that reach the
\* threshold (the earliest of them on a tie), not the first one found.
RECURSIVE BestMatch(_, _, _, _)
BestMatch(val, mapping, c, threshold) ==
    IF c > Len(mapping) THEN [kind |-> "none", c |-> 0, score |-> <<0, 1>>]
    ELSE IF \E k \in 1..Len(mapping[c].members) :
                ~IsStr(mapping[c].members[k].value)
         THEN [kind |-> "raise", c |-> c, score |-> <<0, 1>>]
    ELSE LET similarity == Similarity(val, mapping[c].members)
             later      == BestMatch(val, mapping, c + 1, threshold)
         IN  IF later.kind = "raise" THEN later
             ELSE IF ~FracGeq(similarity, threshold) THEN later
             ELSE IF later.kind = "match" /\ ~FracGeq(similarity, later.score)
                  THEN later
             ELSE [kind |-> "match", c |-> c, score |-> similarity]

\* The inner loop over mapping.items(), from cluster c on: the first cluster
\* whose similarity reaches the threshold ("match"), none ("none"), or the
\* AttributeError of v["value"].lower() on a member that is no str ("raise").
RECURSIVE FirstMatch(_, _, _, _)
FirstMatch(val, mapping, c, threshold) ==
    IF c > Len(mapping) THEN [kind |-> "none", c |-> 0, score |-> <<0, 1>>]
    ELSE IF \E k \in 1..Len(mapping[c].members) :
                ~IsStr(mapping[c].members[k].value)
         THEN [kind |-> "raise", c |-> c, score |-> <<0, 1>>]
    ELSE LET similarity == Similarity(val, mapping[c].members)
         IN  IF FracGeq(similarity, threshold)
             THEN [kind |-> "match", c |-> c, score |-> similarity]
             ELSE FirstMatch(val, mapping, c + 1, threshold)

\* What the last call of cluster_fragments left its local entity_counter at.
\* No statement of the program reads it: a call starts from line 21.
VARIABLE leftover

\* Mutant: the counter is kept from one call to the next (a module-level
\* counter) and not set again when a call starts.
EntityCounterKept == leftover

\* entity_counter = 0
EntityCounterAtStart == 0

\* Mutant: the ID is minted from the counter as it stands, so that the first
\* cluster is E-000000.
NextEntityIdFromCounter(entity_counter) == EntityIdOf(entity_counter)

\* eid = f"E-{entity_counter+1:06d}"
NextEntityId(entity_counter) == EntityIdOf(entity_counter + 1)

\* Mutant: the fragment is given the cluster's ID but is not added to its
\* members.
MemberOmitted(members, row) == members

\* group["members"].append(row.to_dict())
AppendMember(members, row) == Append(members, row)

\* The loop "for i, row in df.iterrows()" from row i on.  rows is the frame
\* as iterrows() saw it when the loop started (row.to_dict() is taken from
\* it), df the frame being filled in, mapping the clusters in creation
\* order, entity_counter the counter of line 21.
RECURSIVE ClusterLoop(_, _, _, _, _, _)
ClusterLoop(rows, df, mapping, entity_counter, i, threshold) ==
    IF i > Len(rows)
    THEN [raised |-> FALSE, mapping |-> mapping, df |-> df]
    ELSE LET val == Lower(PyStr(rows[i].value))
             m   == FirstMatch(val, mapping, 1, threshold)
         IN  IF m.kind = "raise"
             THEN [raised |-> TRUE, mapping |-> mapping, df |-> df]
             ELSE IF m.kind = "match"
             THEN ClusterLoop(
                    rows,
                    [df EXCEPT ![i].entity_id = mapping[m.c].entity_id,
                               ![i].score = m.score],
                    [mapping EXCEPT ![m.c].members = AppendMember(@, rows[i])],
                    entity_counter, i + 1, threshold)
             ELSE LET eid == NextEntityId(entity_counter)
                  IN  ClusterLoop(
                        rows,
                        [df EXCEPT ![i].entity_id = eid,
                                   ![i].score = <<1, 1>>],
                        Append(mapping, [entity_id |-> eid,
                                         members   |-> <<rows[i]>>]),
                        entity_counter + 1, i + 1, threshold)

\* cluster_fragments(fragments, score_threshold): the mapping (a dict keyed
\* by entity ID, in insertion order, here the sequence of its values) and
\* the prepared frame; raised when the call ends in an exception.
cluster_fragments(fragments, score_threshold) ==
    LET df == DataFrame(fragments)
    IN  IF ~HasValueColumn(fragments)
        THEN [raised |-> FALSE, mapping |-> <<>>, df |-> df]
        ELSE ClusterLoop(df, df, <<>>, EntityCounterAtStart, 1, score_threshold)

(***************************************************************************)
(* Python dicts.  A dict is the sequence of its items in insertion order,  *)
(* each [key, value]; a key is [int |-> i] or [str |-> s], so that the int *)
(* 0 and the str "E-000001" are different keys, as in Python.  A dict used *)
(* as a value with named fields is a record whose domain is its key set.   *)
(***************************************************************************)
IntKey(i) == [int |-> i]
StrKey(s) == [str |-> s]
EmptyDict == <<>>

\* d.get(key, default)
DictGet(d, key, default) ==
    IF \E k \in 1..Len(d) : d[k].key = key
    THEN d[CHOOSE k \in 1..Len(d) : d[k].key = key].value
    ELSE default

\* v.get(field, default) for a dict v with named fields.
FieldGet(v, field, default) ==
    IF field \in DOMAIN v THEN v[field] ELSE default

\* "not x" for None and str.
Falsy(x) == x = None \/ x = <<>>

\* The mapping returned by cluster_fragments, as the dict it is: keyed by the
\* entity ID (a str), each value {"entity_id", "members"}.
LinkerDict(mapping) ==
    [k \in 1..Len(mapping) |->
        [key |-> StrKey(mapping[k].entity_id), value |-> mapping[k]]]

\* A mapping of the shape save_mapping reads: keyed by the fragment's index
\* in the batch (0-based), each value {"entity_id"[, "confidence"]}; here the
\* assignment of the prepared frame df, for the indices in S.
IndexDict(df, S, withConfidence) ==
    LET item(i) ==
            [key   |-> IntKey(i - 1),
             value |-> IF withConfidence
                       THEN [entity_id  |-> df[i].entity_id,
                             confidence |-> df[i].score]
                       ELSE [entity_id |-> df[i].entity_id]]
        all == [i \in 1..Len(df) |-> item(i)]
    IN  SelectSeq(all, LAMBDA e : (e.key.int + 1) \in S)

(***************************************************************************)
(* The SQLite database of layer1_mapper: the three tables of init_db and   *)
(* the AUTOINCREMENT sequences (sqlite_sequence).  The columns             *)
(* fragments.created_at and erasures.timestamp, which no statement of the  *)
(* program reads, are left out.                                            *)
(***************************************************************************)
\* init_db() on a new file.
EmptyDb ==
    [entities      |-> {},
     fragments     |-> <<>>,
     erasures      |-> <<>>,
     seq_fragments |-> 0,
     seq_erasures  |-> 0]

\* The default of the "confidence" lookup, 0.9.
DefaultConfidence == <<9, 10>>

\* Mutant: INSERT OR REPLACE, which puts the new row in the place of the one
\* with the same primary key.
InsertOrReplaceEntity(s, eid, confidence, timestamp) ==
    [s EXCEPT !.entities = {e \in @ : e.entity_id # eid} \cup
            {[entity_id      |-> eid,
              confidence     |-> confidence,
              fragment_count |-> 0,
              created_at     |-> timestamp]}]

\* INSERT OR IGNORE INTO entities (entity_id, confidence, fragment_count)
\* VALUES (?,?,0): ignored when the primary key exists.
InsertOrIgnoreEntity(s, eid, confidence, timestamp) ==
    IF \E e \in s.entities : e.entity_id = eid THEN s
    ELSE [s EXCEPT !.entities = @ \cup
            {[entity_id      |-> eid,
              confidence     |-> confidence,
              fragment_count |-> 0,
              created_at     |-> timestamp]}]

\* Mutant: the row is not inserted when a row with the same entity ID, type,
\* value and source is stored already.
InsertFragmentOnce(s, eid, f) ==
    IF \E k \in 1..Len(s.fragments) :
            /\ s.fragments[k].entity_id = eid
            /\ s.fragments[k].frag_type = f.type
            /\ s.fragments[k].value = (IF f.value = Missing THEN None
                                                            ELSE f.value)
            /\ s.fragments[k].source = f.source
    THEN s
    ELSE [s EXCEPT !.fragments = Append(@,
                [frag_id   |-> s.seq_fragments + 1,
                 entity_id |-> eid,
                 frag_type |-> f.type,
                 value     |-> IF f.value = Missing THEN None ELSE f.value,
                 source    |-> f.source]),
              !.seq_fragments = @ + 1]

\* INSERT INTO fragments (entity_id, frag_type, value, source) VALUES (?,?,?,?)
InsertFragment(s, eid, f) ==
    [s EXCEPT !.fragments = Append(@,
                [frag_id   |-> s.seq_fragments + 1,
                 entity_id |-> eid,
                 frag_type |-> f.type,
                 value     |-> IF f.value = Missing THEN None ELSE f.value,
                 source    |-> f.source]),
              !.seq_fragments = @ + 1]

\* SELECT COUNT(*) FROM fragments WHERE fragments.entity_id = ?
CountFragments(s, eid) ==
    Cardinality({k \in 1..Len(s.fragments) : s.fragments[k].entity_id = eid})

\* Mutant: the UPDATE that recomputes the counts is left out.
UpdateFragmentCountsOmitted(s) == s

\* UPDATE entities SET fragment_count = (SELECT COUNT(*) ...), every row.
UpdateFragmentCounts(s) ==
    [s EXCEPT !.entities =
        {[e EXCEPT !.fragment_count = CountFragments(s, e.entity_id)] : e \in @}]

\* Mutant: the fragments of the entity are not deleted.
DeleteFragmentsOmitted(s, eid) == s

\* DELETE FROM fragments WHERE entity_id=?
DeleteFragments(s, eid) ==
    [s EXCEPT !.fragments = SelectSeq(@, LAMBDA r : r.entity_id # eid)]

\* Mutant: the entity row is not deleted.
DeleteEntityOmitted(s, eid) == s

\* DELETE FROM entities WHERE entity_id=?
DeleteEntity(s, eid) ==
    [s EXCEPT !.entities = {e \in @ : e.entity_id # eid}]

\* INSERT INTO erasures (entity_id, requested_by, reason) VALUES (?,?,?)
InsertErasure(s, eid, requested_by, reason) ==
    [s EXCEPT !.erasures = Append(@,
                [id           |-> s.seq_erasures + 1,
                 entity_id    |-> eid,
                 requested_by |-> requested_by,
                 reason       |-> reason]),
              !.seq_erasures = @ + 1]

\* SELECT * FROM entities WHERE entity_id=?: the rows (at most one, entity_id
\* being the primary key).
SelectEntity(s, eid) == {e \in s.entities : e.entity_id = eid}

\* SELECT frag_type, value, source FROM fragments WHERE entity_id=?
SelectFragments(s, eid) ==
    LET rows == SelectSeq(s.fragments, LAMBDA r : r.entity_id = eid)
    IN  [k \in 1..Len(rows) |->
            [frag_type |-> rows[k].frag_type,
             value     |-> rows[k].value,
             source    |-> rows[k].source]]

\* What get_entity returns when fetchone() finds no row: None.
NotFound == [found |-> FALSE, entity |-> <<>>, fragments |-> <<>>]

\* get_entity(eid) with both SELECTs run on the same contents s: None, or the
\* entity row and the (frag_type, value, source) of its fragments.
get_entity(s, eid) ==
    IF SelectEntity(s, eid) = {} THEN NotFound
    ELSE [found     |-> TRUE,
          entity    |-> CHOOSE e \in SelectEntity(s, eid) : TRUE,
          fragments |-> SelectFragments(s, eid)]

\* The three COUNT(*) of get_statistics(), all run on the same contents s
\* (the rounded average, which no claim reads, is left out).
get_statistics(s) ==
    [total_entities     |-> Cardinality(s.entities),
     total_fragments    |-> Len(s.fragments),
     erasures_performed |-> Len(s.erasures)]

\* Whether the characters of query occur, one after the other, in text.
Contains(text, query) ==
    \E k \in 0..(Len(text) - Len(query)) :
        SubSeq(text, k + 1, k + Len(query)) = query

\* The characters of the sources of the model.
SourceChars(source) ==
    CASE source = "a.txt" -> <<"a", ".", "t", "x", "t">>
      [] source = "b.txt" -> <<"b", ".", "t", "x", "t">>
      [] source = "c.txt" -> <<"c", ".", "t", "x", "t">>
      [] OTHER -> <<>>

\* text LIKE '%query%': NULL is like nothing, and LIKE takes no notice of
\* the case of ASCII letters.
Like(text, query) ==
    text # None /\ Contains(Lower(text), Lower(query))

\* search_entities(query): the rows of the entities with a fragment whose
\* value or source is LIKE %query%, each once (the order of the list,
\* newest first, is left out; LIMIT 50 is above what the model holds).
search_entities(s, query) ==
    {e \in s.entities :
        \E k \in 1..Len(s.fragments) :
            /\ s.fragments[k].entity_id = e.entity_id
            /\ \/ Like(s.fragments[k].value, query)
               \/ Like(SourceChars(s.fragments[k].source), query)}

(***************************************************************************)
(* The statements a store call executes, in order, and their execution on  *)
(* the contents the call's connection sees.                                *)
(***************************************************************************)
NoFragment == [type |-> "", value |-> <<>>, source |-> ""]

Statement(kind, eid, confidence, f, requested_by, reason) ==
    [kind |-> kind, eid |-> eid, confidence |-> confidence, f |-> f,
     requested_by |-> requested_by, reason |-> reason]

\* The statements of one pass of "for i, f in enumerate(fragments)", for the
\* fragment at 0-based index i: none when the mapping gives it no entity ID.
SavePass(mapping, fragments, i) ==
    LET entry == DictGet(mapping, IntKey(i), EmptyDict)
        eid   == FieldGet(entry, "entity_id", None)
    IN  IF Falsy(eid) THEN <<>>
        ELSE <<Statement("insert_entity", eid,
                         FieldGet(entry, "confidence", DefaultConfidence),
                         NoFragment, "", ""),
               Statement("insert_fragment", eid, <<0, 1>>,
                         fragments[i + 1], "", "")>>

RECURSIVE SavePasses(_, _, _)
SavePasses(mapping, fragments, i) ==
    IF i >= Len(fragments) THEN <<>>
    ELSE SavePass(mapping, fragments, i) \o SavePasses(mapping, fragments, i + 1)

\* save_mapping: the passes of the loop, then the UPDATE of the counts.
SaveStatements(mapping, fragments) ==
    SavePasses(mapping, fragments, 0)
        \o <<Statement("update_counts", None, <<0, 1>>, NoFragment, "", "")>>

\* erase_entity: the two DELETEs, then the INSERT of the Erasure Record.
EraseStatements(eid, requested_by, reason) ==
    <<Statement("delete_fragments", eid, <<0, 1>>, NoFragment, "", ""),
      Statement("delete_entity", eid, <<0, 1>>, NoFragment, "", ""),
      Statement("insert_erasure", eid, <<0, 1>>, NoFragment,
                requested_by, reason)>>

\* cur.execute of one statement at time timestamp.
Execute(s, stmt, timestamp) ==
    CASE stmt.kind = "insert_entity" ->
            InsertOrIgnoreEntity(s, stmt.eid, stmt.confidence, timestamp)
      [] stmt.kind = "insert_fragment" -> InsertFragment(s, stmt.eid, stmt.f)
      [] stmt.kind = "update_counts" -> UpdateFragmentCounts(s)
      [] stmt.kind = "delete_fragments" -> DeleteFragments(s, stmt.eid)
      [] stmt.kind = "delete_entity" -> DeleteEntity(s, stmt.eid)
      [] stmt.kind = "insert_erasure" ->
            InsertErasure(s, stmt.eid, stmt.requested_by, stmt.reason)

\* The first n statements executed in order.
RECURSIVE ExecuteFirst(_, _, _, _)
ExecuteFirst(s, stmts, n, timestamp) ==
    IF n = 0 THEN s
    ELSE Execute(ExecuteFirst(s, stmts, n - 1, timestamp), stmts[n], timestamp)

(***************************************************************************)
(* The connection's transaction.  sqlite3 opens a transaction before the   *)
(* first INSERT/UPDATE/DELETE of a connection and publishes its writes at  *)
(* con.commit(); a connection that goes away without commit() is rolled    *)
(* back.                                                                   *)
(***************************************************************************)
\* The committed contents after con.commit().
Commit(committed, working) == working

\* Mutant: every statement is committed as it runs (autocommit), so the
\* writes made before the exception stay.
RollbackKeepsWrites(committed, working) == working

\* The committed contents after the connection is dropped without commit().
Rollback(committed, working) == committed

(***************************************************************************)
(* State.                                                                  *)
(***************************************************************************)
VARIABLES
    db,      \* the committed contents of layer1_mapper.db
    tx,      \* the contents the last store call's connection saw when it ended
    pc,      \* "idle", or "returned" right after a store call
    call,    \* the last store call and its arguments
    ret,     \* what it returned: "None", "True", or "raised"
    pre,     \* the committed contents when it started
    erased,  \* the IDs of the entities erase_entity has erased so far
    now,     \* the UTC wall clock, in seconds
    files,   \* outputs/audit_logs: path -> content, a sequence of lines
    wr,      \* each audit caller's position in log_*_operation / _write
    stored,  \* the (path, entry) of every completed log_*_operation call
    calls,   \* the number of log_*_operation calls started
    linked,  \* the cluster_fragments calls made so far and what each returned
    writers, \* the store calls whose connection holds a write transaction
    image,   \* the contents as the open write transaction has changed them
    proc,    \* each concurrent store call's position and partial result
    base,    \* the committed contents when the concurrent calls were started
    app,     \* the last flow of app.py and what it did
    session  \* each browser session's position in the erase handler

storeVars == <<db, tx, pc, call, ret, pre, erased>>
auditVars == <<files, wr, stored, calls>>
linkVars == <<leftover, linked>>
concVars == <<writers, image, proc, base>>
appVars == <<app, session>>
vars == <<db, tx, pc, call, ret, pre, erased, now, files, wr, stored, calls,
          leftover, linked, writers, image, proc, base, app, session>>

(***************************************************************************)
(* Inputs of the store calls.                                              *)
(***************************************************************************)
john_x_com == <<"j","o","h","n","@","x",".","c","o","m">>
jane_y_com == <<"j","a","n","e","@","y",".","c","o","m">>

\* The batch of the three-email scenario.
ThreeEmails ==
    <<[type |-> "EMAIL", value |-> john_x_com, source |-> "a.txt"],
      [type |-> "EMAIL", value |-> john_x_com, source |-> "b.txt"],
      [type |-> "EMAIL", value |-> jane_y_com, source |-> "c.txt"]>>

\* The batches: the scenario's batch and its prefixes, the empty one included.
Batches == {SubSeq(ThreeEmails, 1, n) : n \in 0..Len(ThreeEmails)}

\* The slider of app.py gives the threshold in percent; the linker gets
\* threshold / 100.0.
Thresholds == {70, 85}

ScoreThreshold(percent) == Frac(percent, 100)

\* cluster_fragments on every batch and threshold of the model, computed
\* once: Clustering[<<F, t>>] is cluster_fragments(F, t / 100.0).
RECURSIVE ClusteringOf(_)
ClusteringOf(inputs) ==
    LET in == CHOOSE x \in inputs : TRUE
        out == in :> cluster_fragments(in[1], ScoreThreshold(in[2]))
    IN  IF inputs = {in} THEN out ELSE out @@ ClusteringOf(inputs \ {in})

Clustering == ClusteringOf(Batches \X Thresholds)

\* The arguments of erase_entity: its defaults, and what app.py passes.
EraseIds == {EntityIdOf(1), EntityIdOf(999999)}
Requests ==
    {[requested_by |-> "system", reason |-> "GDPR Erasure"],
     [requested_by |-> "demo_user",
      reason |-> "GDPR Article 17 - Right to Erasure"]}

NoCall ==
    [op |-> "none", mapping |-> <<>>, fragments |-> <<>>, eid |-> None,
     requested_by |-> "", reason |-> "", executed |-> 0]

(***************************************************************************)
(* mapper.save_mapping(mapping, fragments): the whole call.  It executes   *)
(* its statements in order; either all of them and con.commit(), or the    *)
(* statement after the first n (or commit() itself, when n is all of them) *)
(* raises sqlite3.Error, the exception leaves the function and the         *)
(* connection is dropped without commit().                                 *)
(***************************************************************************)
SaveMappingCall(mapping, fragments) ==
    /\ pc = "idle"
    /\ db.seq_fragments + Len(fragments) <= MaxFragId
    /\ LET stmts == SaveStatements(mapping, fragments)
       IN  \E n \in 0..Len(stmts), raises \in BOOLEAN :
             /\ ~raises => n = Len(stmts)
             /\ LET working == ExecuteFirst(db, stmts, n, now)
                IN  /\ tx' = working
                    /\ db' = IF raises THEN Rollback(db, working)
                                       ELSE Commit(db, working)
             /\ ret' = IF raises THEN "raised" ELSE "None"
             /\ call' = [NoCall EXCEPT !.op = "save_mapping",
                                       !.mapping = mapping,
                                       !.fragments = fragments,
                                       !.executed = n]
    /\ pre' = db
    /\ pc' = "returned"
    /\ UNCHANGED <<erased, now, auditVars, linkVars, concVars, appVars>>

(***************************************************************************)
(* mapper.erase_entity(eid, requested_by, reason): the whole call, which   *)
(* ends in "return True" or in an exception, as above.                     *)
(***************************************************************************)
EraseEntityCall(eid, requested_by, reason) ==
    /\ pc = "idle"
    /\ db.seq_erasures < MaxErasureId
    /\ LET stmts == EraseStatements(eid, requested_by, reason)
       IN  \E n \in 0..Len(stmts), raises \in BOOLEAN :
             /\ ~raises => n = Len(stmts)
             /\ LET working == ExecuteFirst(db, stmts, n, now)
                IN  /\ tx' = working
                    /\ db' = IF raises THEN Rollback(db, working)
                                       ELSE Commit(db, working)
             /\ ret' = IF raises THEN "raised" ELSE "True"
             /\ erased' = IF ~raises /\ (\E e \in db.entities : e.entity_id = eid)
                           THEN erased \cup {eid} ELSE erased
             /\ call' = [NoCall EXCEPT !.op = "erase_entity",
                                       !.eid = eid,
                                       !.requested_by = requested_by,
                                       !.reason = reason,
                                       !.executed = n]
    /\ pre' = db
    /\ pc' = "returned"
    /\ UNCHANGED <<now, auditVars, linkVars, concVars, appVars>>

(***************************************************************************)
(* Callers of the store.                                                   *)
(***************************************************************************)
\* app.py, Scan & Link, phases 2 and 3: cluster the batch, and when the
\* mapping is not empty hand it, as returned, to save_mapping.
ScanAndLinkInputs ==
    {[mapping   |-> LinkerDict(Clustering[in].mapping),
      fragments |-> in[1]] :
        in \in {x \in Batches \X Thresholds :
                    /\ x[1] # <<>>
                    /\ ~Clustering[x].raised
                    /\ Clustering[x].mapping # <<>>}}

ScanAndLink ==
    \E in \in ScanAndLinkInputs :
        /\ in.fragments # <<>>
        /\ SaveMappingCall(in.mapping, in.fragments)

\* The index sets a caller's mapping covers: every fragment of the batch, or
\* all but one of them.
IndexSets(n) == {1..n} \cup {(1..n) \ {k} : k \in 1..n}

\* save_mapping called with a mapping keyed by fragment index, the shape
\* its loop reads: the linker's per-fragment assignment of the batch, with
\* or without the score as "confidence".
SaveAssignmentInputs ==
    UNION {{[mapping   |-> IndexDict(Clustering[in].df, S, c),
             fragments |-> in[1]] :
                S \in IndexSets(Len(in[1])), c \in BOOLEAN} :
            in \in {x \in Batches \X Thresholds : ~Clustering[x].raised}}

SaveAssignment ==
    \E in \in SaveAssignmentInputs :
        /\ Len(in.mapping) <= Len(in.fragments)
        /\ SaveMappingCall(in.mapping, in.fragments)

\* erase_entity called on its own.
Erase ==
    \E eid \in EraseIds, r \in Requests :
        /\ ~Falsy(eid)
        /\ EraseEntityCall(eid, r.requested_by, r.reason)

\* The caller goes on after a store call.
Return ==
    /\ pc = "returned"
    /\ pc' = "idle"
    /\ call' = NoCall
    /\ ret' = "None"
    /\ tx' = db
    /\ pre' = db
    /\ UNCHANGED <<db, erased, now, auditVars, linkVars, concVars, appVars>>

\* A second of wall-clock time passes.
Tick ==
    /\ pc = "idle"
    /\ now < MaxClock
    /\ now' = now + 1
    /\ UNCHANGED <<storeVars, auditVars, linkVars, concVars, appVars>>

(***************************************************************************)
(* security.audit_logger.AuditLogger.  An entry is a dict, here the        *)
(* sequence of its items [k, v, s, u] in insertion order: key k and value  *)
(* v, and for "timestamp_utc" the value as utcnow() at second s, with u    *)
(* telling apart two instants of the same second.  A file's content is a   *)
(* sequence of lines: json.dump(entry, indent=2) writes an opening line,   *)
(* one line per item and a closing line.                                   *)
(***************************************************************************)
Item(k, v) == [k |-> k, v |-> v, s |-> 0, u |-> 0]
OpenLine == Item("{", "")
CloseLine == Item("}", "")

\* json.dump(entry, f, indent=2), as the lines written.
JsonDump(entry) == <<OpenLine>> \o entry \o <<CloseLine>>

\* Whether json.load accepts the content: one object and nothing after it.
JsonValid(content) ==
    /\ Len(content) >= 2
    /\ content[1] = OpenLine
    /\ content[Len(content)] = CloseLine
    /\ \A k \in 2..(Len(content) - 1) :
            content[k] # OpenLine /\ content[k] # CloseLine

\* json.load of a content it accepts.
JsonLoad(content) == SubSeq(content, 2, Len(content) - 1)

\* LOG_DIR / f"audit_{ts}.json", ts = utcnow().strftime("%Y%m%dT%H%M%S"):
\* the clock cut to the second t.
AuditPath(t) == <<"audit_", t, ".json">>

\* {"operation": ..., "timestamp_utc": utcnow().isoformat()+"Z", **kwargs}
Entry(operation, second, instant, kwargs) ==
    <<Item("operation", operation),
      [k |-> "timestamp_utc", v |-> "", s |-> second, u |-> instant]>>
        \o kwargs

\* open(path, "w"): the file is created, or cut to length 0.
OpenForWriting(fs, path) == (path :> <<>>) @@ fs

\* What the file holds after a handle opened with "w" flushes content: the
\* handle writes at its own offset 0, over whatever the file holds by then,
\* and does not cut the file again.
WriteAtStart(fs, path, content) ==
    (path :> (content \o SubSeq(fs[path], Len(content) + 1, Len(fs[path]))))
        @@ fs

\* _write(entry) run without interruption at second t.
Write(fs, entry, t) ==
    WriteAtStart(OpenForWriting(fs, AuditPath(t)), AuditPath(t),
                 JsonDump(entry))

\* sorted(LOG_DIR.glob("audit_*.json"), reverse=True): the paths, last first.
RECURSIVE SortedReverse(_)
SortedReverse(paths) ==
    IF paths = {} THEN <<>>
    ELSE LET last == CHOOSE p \in paths : \A q \in paths : q[2] <= p[2]
         IN  <<last>> \o SortedReverse(paths \ {last})

\* get_recent_logs(limit): the entries loaded from the first limit paths, or
\* raised when json.load rejects one of the files.
get_recent_logs(fs, limit) ==
    LET logs   == SortedReverse(DOMAIN fs)
        chosen == SubSeq(logs, 1, IF limit < Len(logs) THEN limit ELSE Len(logs))
    IN  IF \E k \in 1..Len(chosen) : ~JsonValid(fs[chosen[k]])
        THEN [raised |-> TRUE, logs |-> <<>>]
        ELSE [raised |-> FALSE,
              logs   |-> [k \in 1..Len(chosen) |-> JsonLoad(fs[chosen[k]])]]

\* The keyword arguments app.py passes to each method.
ScanKwargs ==
    <<Item("proof_hash", "h"), Item("rows", "3"), Item("cols", "0"),
      Item("user", "demo_user"), Item("source_files", "a.txt"),
      Item("fragments_found", "3")>>
AccessKwargs ==
    <<Item("entity_id", "E-000001"), Item("user", "demo_user"),
      Item("purpose", "manual_lookup")>>
ErasureKwargs ==
    <<Item("entity_id", "E-000001"), Item("fragments_deleted", "2"),
      Item("requested_by", "demo_user"),
      Item("reason", "GDPR Article 17 - Right to Erasure")>>
LinkingKwargs == <<Item("user", "demo_user")>>

\* The text of an entity ID, as json.dump writes it.
IdText(eid) ==
    CASE eid = EntityIdOf(1) -> "E-000001"
      [] eid = EntityIdOf(2) -> "E-000002"
      [] OTHER -> "E-999999"

\* The keyword arguments of the three log_*_operation calls of app.py, from
\* what the handler has at hand.
ScanKwargsOf(fragments) ==
    <<Item("proof_hash", "h"), Item("rows", DigitChar[Len(fragments) + 1]),
      Item("cols", "0"), Item("user", "demo_user"),
      Item("source_files", "a.txt"),
      Item("fragments_found", DigitChar[Len(fragments) + 1])>>
AccessKwargsOf(entity_id) ==
    <<Item("entity_id", IdText(entity_id)), Item("user", "demo_user"),
      Item("purpose", "manual_lookup")>>
ErasureKwargsOf(entity_id, frag_count, reason) ==
    <<Item("entity_id", IdText(entity_id)),
      Item("fragments_deleted", DigitChar[frag_count + 1]),
      Item("requested_by", "demo_user"), Item("reason", reason)>>

\* The entry built by each of the four methods.
ScanEntryOf(second, instant, fragments) ==
    Entry("scan", second, instant, ScanKwargsOf(fragments))
AccessEntryOf(second, instant, entity_id) ==
    Entry("access", second, instant, AccessKwargsOf(entity_id))
ErasureEntryOf(second, instant, entity_id, frag_count, reason) ==
    Entry("erasure", second, instant,
          ErasureKwargsOf(entity_id, frag_count, reason))

ScanEntry(second, instant) == Entry("scan", second, instant, ScanKwargs)
LinkingEntry(second, instant) == Entry("linking", second, instant, LinkingKwargs)
ErasureEntry(second, instant) == Entry("erasure", second, instant, ErasureKwargs)
AccessEntry(second, instant) == Entry("access", second, instant, AccessKwargs)

(***************************************************************************)
(* The audit trail with one caller: each log_*_operation call runs to its  *)
(* end before the next one starts.                                         *)
(***************************************************************************)
AuditCallers == {"c1", "c2"}

IdleWriter == [pc |-> "idle", entry |-> <<>>, path |-> AuditPath(0)]

AllIdle == \A c \in AuditCallers : wr[c].pc = "idle"

\* A call that builds entry and hands it to _write, run to its end.
LogOperation(entry) ==
    /\ AllIdle
    /\ calls < MaxCalls
    /\ calls' = calls + 1
    /\ files' = Write(files, entry, now)
    /\ stored' = stored \cup {[path |-> AuditPath(now), entry |-> entry]}
    /\ UNCHANGED <<storeVars, now, wr, linkVars, concVars, appVars>>

log_scan_operation == LogOperation(ScanEntry(now, calls + 1))
log_linking_operation == LogOperation(LinkingEntry(now, calls + 1))
log_erasure_operation == LogOperation(ErasureEntry(now, calls + 1))
log_access_operation == LogOperation(AccessEntry(now, calls + 1))

(***************************************************************************)
(* The audit trail with concurrent callers: the steps of one call.         *)
(***************************************************************************)
\* The method builds its entry and calls _write.
LogBegin(c) ==
    /\ wr[c].pc = "idle"
    /\ calls < MaxCalls
    /\ calls' = calls + 1
    /\ \E entry \in {ScanEntry(now, calls + 1), LinkingEntry(now, calls + 1),
                     ErasureEntry(now, calls + 1), AccessEntry(now, calls + 1)} :
          wr' = [wr EXCEPT ![c] = [pc |-> "name", entry |-> entry,
                                   path |-> AuditPath(0)]]
    /\ UNCHANGED <<storeVars, now, files, stored, linkVars, concVars, appVars>>

\* ts = utcnow().strftime(...); path = LOG_DIR / f"audit_{ts}.json"
WriteName(c) ==
    /\ wr[c].pc = "name"
    /\ wr' = [wr EXCEPT ![c].pc = "open", ![c].path = AuditPath(now)]
    /\ UNCHANGED <<storeVars, now, files, stored, calls, linkVars, concVars, appVars>>

\* open(path, "w", encoding="utf-8")
WriteOpen(c) ==
    /\ wr[c].pc = "open"
    /\ files' = OpenForWriting(files, wr[c].path)
    /\ wr' = [wr EXCEPT ![c].pc = "dump"]
    /\ UNCHANGED <<storeVars, now, stored, calls, linkVars, concVars, appVars>>

\* json.dump(entry, f, indent=2) into the handle's buffer, flushed when the
\* with block closes the file; return entry.
WriteClose(c) ==
    /\ wr[c].pc = "dump"
    /\ files' = WriteAtStart(files, wr[c].path, JsonDump(wr[c].entry))
    /\ stored' = stored \cup {[path |-> wr[c].path, entry |-> wr[c].entry]}
    /\ wr' = [wr EXCEPT ![c] = IdleWriter]
    /\ UNCHANGED <<storeVars, now, calls, linkVars, concVars, appVars>>

(***************************************************************************)
(* Calls of cluster_fragments on their own: the batches and thresholds a   *)
(* caller can pass, and the results of the calls the caller still holds.   *)
(***************************************************************************)
ab == <<"a", "b">>
bcd == <<"b", "c", "d">>
abcd == <<"a", "b", "c", "d">>

Email(value, source) == [type |-> "EMAIL", value |-> value, source |-> source]

\* "abcd" reaches 0.5 with "ab" (2/3) and is closer to "bcd" (6/7), which
\* does not reach 0.5 with "ab" (2/5).
OverlapBatch ==
    <<Email(ab, "a.txt"), Email(bcd, "b.txt"), Email(abcd, "c.txt")>>

\* Batches with a fragment whose "value" is None, or that has no "value".
NoneFirstBatch == <<Email(None, "a.txt"), Email(ab, "b.txt")>>
NoneLastBatch ==
    <<Email(ab, "a.txt"), Email(abcd, "b.txt"), Email(None, "c.txt")>>
MissingBatch == <<Email(ab, "a.txt"), Email(Missing, "b.txt")>>

\* A batch in which no fragment has a "value".
NoValueBatch == <<Email(Missing, "a.txt"), Email(Missing, "b.txt")>>

LinkBatches ==
    {<<>>, OverlapBatch, NoneFirstBatch, NoneLastBatch, MissingBatch,
     NoValueBatch}

\* score_threshold: the default 0.85, the slider's lowest value 0.5, and
\* values outside (0, 1].
LinkThresholds ==
    {Frac(17, 20), Frac(1, 2), Frac(0, 1), Frac(-1, 2), Frac(3, 2)}

\* cluster_fragments on every batch and threshold above, computed once.
RECURSIVE LinkingOf(_)
LinkingOf(inputs) ==
    LET in == CHOOSE x \in inputs : TRUE
        out == in :> cluster_fragments(in[1], in[2])
    IN  IF inputs = {in} THEN out ELSE out @@ LinkingOf(inputs \ {in})

\* The calls made: each batch at each threshold, and the batch of the
\* three-email scenario at the default threshold.
LinkInputs ==
    (LinkBatches \X LinkThresholds) \cup {<<ThreeEmails, Frac(17, 20)>>}

Linking == LinkingOf(LinkInputs)

\* One call: cluster_fragments(fragments, score_threshold) returns, or raises.
Cluster ==
    /\ Len(linked) < MaxLinks
    /\ \E in \in LinkInputs :
          LET result == Linking[in]
          IN  /\ linked' = Append(linked, [fragments       |-> in[1],
                                           score_threshold |-> in[2],
                                           result          |-> result])
              /\ leftover' = EntityCounterAtStart + Len(result.mapping)
    /\ UNCHANGED <<storeVars, now, auditVars, concVars, appVars>>

\* The caller drops the oldest result it holds.
Forget ==
    /\ linked # <<>>
    /\ linked' = Tail(linked)
    /\ UNCHANGED <<storeVars, now, auditVars, leftover, concVars, appVars>>

(***************************************************************************)
(* The store under concurrent calls.  Every function of mapper.py opens    *)
(* its own connection, and the sessions of the app run in threads of their *)
(* own, so a save_mapping, an erase_entity and a read can be under way at  *)
(* the same time.  SQLite lets one connection at a time hold a write       *)
(* transaction, which the first INSERT/UPDATE/DELETE of a connection opens *)
(* and commit() publishes in one step; another connection's first write    *)
(* waits for it, and raises "database is locked" when the wait (5 s, the   *)
(* default of sqlite3.connect) runs out.  A connection that only reads has *)
(* no transaction: each SELECT of get_entity and of get_statistics reads   *)
(* the contents committed at the time it runs.                             *)
(***************************************************************************)
StoreWriters == {"saver", "eraser"}
StoreProcs == StoreWriters \cup {"reader"}

NoStatistics ==
    [total_entities |-> 0, total_fragments |-> 0, erasures_performed |-> 0]

IdleProc ==
    [pc |-> "idle", op |-> "none", stmts |-> <<>>, k |-> 0, eid |-> None,
     entity |-> NotFound, statistics |-> NoStatistics, seen |-> {},
     ret |-> "None", met |-> FALSE]

Running(p) == proc[p].pc = "running"

\* Mutant: no lock; a connection writes whatever another one is doing.
ReservableAlways(held, w) == TRUE

\* Whether connection w can open its write transaction: nobody holds one.
Reservable(held, w) == held = {}

\* con = sqlite3.connect(DB); cur = con.cursor(), of a writing call.
WriterBegin(w, op, stmts, eid) ==
    /\ proc[w].pc = "idle"
    /\ proc' = [proc EXCEPT ![w] =
                  [IdleProc EXCEPT !.pc = "running", !.op = op,
                                   !.stmts = stmts, !.eid = eid,
                                   !.met = \E v \in StoreWriters \ {w} :
                                                Running(v)]]
    /\ UNCHANGED <<db, tx, pc, call, ret, pre, erased, now, auditVars,
                   linkVars, writers, image, base, appVars>>

\* The index-keyed mappings save_mapping is called with here: the linker's
\* assignment of each batch at 0.85, every fragment covered.
ConcSaveInputs ==
    {SaveStatements(IndexDict(Clustering[<<F, 85>>].df, 1..Len(F), FALSE), F) :
        F \in Batches \ {<<>>}}

\* The number of INSERT INTO fragments among the statements.
FragmentInserts(stmts) ==
    Cardinality({k \in 1..Len(stmts) : stmts[k].kind = "insert_fragment"})

SaveBegin ==
    \E stmts \in ConcSaveInputs :
        /\ db.seq_fragments + FragmentInserts(stmts) <= MaxFragId
        /\ WriterBegin("saver", "save_mapping", stmts, None)

EraseBegin ==
    \E eid \in EraseIds :
        /\ db.seq_erasures < MaxErasureId
        /\ WriterBegin("eraser", "erase_entity",
                       EraseStatements(eid, "system", "GDPR Erasure"), eid)

\* cur.execute of the call's next statement.  The first one opens the write
\* transaction, on the committed contents.
WriterExecute(w) ==
    /\ Running(w)
    /\ proc[w].k < Len(proc[w].stmts)
    /\ proc[w].k = 0 => Reservable(writers, w)
    /\ image' = Execute(IF writers = {} THEN db ELSE image,
                        proc[w].stmts[proc[w].k + 1], now)
    /\ writers' = writers \cup {w}
    /\ proc' = [proc EXCEPT ![w].k = @ + 1]
    /\ UNCHANGED <<db, tx, pc, call, ret, pre, erased, now, auditVars,
                   linkVars, base, appVars>>

\* The first statement finds the write transaction of another connection and
\* the wait runs out: sqlite3.OperationalError leaves the function.
WriterBusy(w) ==
    /\ Running(w)
    /\ proc[w].k = 0
    /\ ~Reservable(writers, w)
    /\ proc' = [proc EXCEPT ![w].pc = "done", ![w].ret = "raised"]
    /\ UNCHANGED <<db, tx, pc, call, ret, pre, erased, now, auditVars,
                   linkVars, writers, image, base, appVars>>

\* con.commit(); con.close(); return.  A read under way has one more
\* committed contents it may see.
WriterCommit(w) ==
    /\ Running(w)
    /\ proc[w].k = Len(proc[w].stmts)
    /\ db' = Commit(db, image)
    /\ writers' = writers \ {w}
    /\ UNCHANGED image
    /\ proc' = [proc EXCEPT
                  ![w].pc = "done",
                  ![w].ret = IF proc[w].op = "erase_entity" THEN "True"
                                                            ELSE "None",
                  !["reader"].seen = IF Running("reader")
                                     THEN @ \cup {Commit(db, image)} ELSE @]
    /\ UNCHANGED <<tx, pc, call, ret, pre, erased, now, auditVars,
                   linkVars, base, appVars>>

\* con = sqlite3.connect(DB) of get_entity(eid) or get_statistics().
ReadBegin ==
    /\ proc["reader"].pc = "idle"
    /\ \E op \in {"get_entity", "get_statistics"} :
          proc' = [proc EXCEPT !["reader"] =
                     [IdleProc EXCEPT !.pc = "running", !.op = op,
                                      !.eid = EntityIdOf(1),
                                      !.seen = {db}]]
    /\ UNCHANGED <<db, tx, pc, call, ret, pre, erased, now, auditVars,
                   linkVars, writers, image, base, appVars>>

\* get_entity: the SELECT on entities and "if not entity: return None",
\* then the SELECT on fragments and the return of both.
GetEntityStep ==
    /\ Running("reader")
    /\ proc["reader"].op = "get_entity"
    /\ LET eid == proc["reader"].eid
       IN  IF proc["reader"].k = 0
           THEN IF SelectEntity(db, eid) = {}
                THEN proc' = [proc EXCEPT !["reader"].pc = "done",
                                          !["reader"].entity = NotFound]
                ELSE proc' = [proc EXCEPT
                        !["reader"].k = 1,
                        !["reader"].entity.found = TRUE,
                        !["reader"].entity.entity =
                            CHOOSE e \in SelectEntity(db, eid) : TRUE]
           ELSE proc' = [proc EXCEPT
                        !["reader"].pc = "done",
                        !["reader"].entity.fragments =
                            SelectFragments(db, eid)]
    /\ UNCHANGED <<db, tx, pc, call, ret, pre, erased, now, auditVars,
                   linkVars, writers, image, base, appVars>>

\* get_statistics: its SELECT COUNT(*) on entities, on fragments and on
\* erasures, one after the other, and the return of the dict.
GetStatisticsStep ==
    /\ Running("reader")
    /\ proc["reader"].op = "get_statistics"
    /\ proc' = [proc EXCEPT
          !["reader"].k = @ + 1,
          !["reader"].pc = IF proc["reader"].k = 2 THEN "done" ELSE @,
          !["reader"].statistics =
              CASE proc["reader"].k = 0 ->
                     [@ EXCEPT !.total_entities =
                                    get_statistics(db).total_entities]
                [] proc["reader"].k = 1 ->
                     [@ EXCEPT !.total_fragments =
                                    get_statistics(db).total_fragments]
                [] OTHER ->
                     [@ EXCEPT !.erasures_performed =
                                    get_statistics(db).erasures_performed]]
    /\ UNCHANGED <<db, tx, pc, call, ret, pre, erased, now, auditVars,
                   linkVars, writers, image, base, appVars>>

\* The calls under way have all ended; the next ones start from what is
\* committed now.
ConcSettle ==
    /\ \A p \in StoreProcs : ~Running(p)
    /\ \E p \in StoreProcs : proc[p].pc = "done"
    /\ proc' = [p \in StoreProcs |-> IdleProc]
    /\ base' = db
    /\ image' = db
    /\ UNCHANGED <<db, tx, pc, call, ret, pre, erased, now, auditVars,
                   linkVars, writers, appVars>>

(***************************************************************************)
(* app.py: what the buttons of the page do, each handler run to its end.   *)
(* An exception of a store call leaves the handler (nothing catches it),   *)
(* so what follows the call is not run.  pre is the committed contents the *)
(* handler started on.                                                     *)
(***************************************************************************)
\* The store is also filled by save_mapping called with the linker's
\* assignment of a whole batch, keyed by fragment index.
SeedInputs ==
    {[mapping   |-> IndexDict(Clustering[<<F, 85>>].df, 1..Len(F), FALSE),
      fragments |-> F] : F \in Batches \ {<<>>}}

SeedStore ==
    \E in \in SeedInputs :
        /\ in.fragments # <<>>
        /\ SaveMappingCall(in.mapping, in.fragments)

\* No button pressed yet.
NoFlow ==
    [flow |-> "none", eid |-> None, found |-> FALSE, raised |-> FALSE,
     committed |-> FALSE, audited |-> FALSE, entry |-> <<>>]

\* audit_logger.log_*_operation(**kwargs) called by a handler, run to its end.
AppLog(entry) ==
    /\ calls' = calls + 1
    /\ files' = Write(files, entry, now)
    /\ stored' = stored \cup {[path |-> AuditPath(now), entry |-> entry]}

\* "Run Full Historical Scan": with fragments found, cluster them; save the
\* mapping when auto_save is ticked and the mapping is not empty; then write
\* the scan entry.
ScanFlowInputs ==
    {[fragments |-> x[1],
      mapping   |-> LinkerDict(Clustering[<<x[1], x[2]>>].mapping),
      auto_save |-> x[3]] :
        x \in {y \in Batches \X Thresholds \X BOOLEAN :
                    y[1] # <<>> /\ ~Clustering[<<y[1], y[2]>>].raised}}

ScanFlow ==
    /\ pc = "idle" /\ calls < MaxCalls
    /\ \E in \in ScanFlowInputs, raises \in BOOLEAN :
          LET saves   == in.auto_save /\ in.mapping # <<>>
              stmts   == SaveStatements(in.mapping, in.fragments)
              working == ExecuteFirst(db, stmts, Len(stmts), now)
              entry   == ScanEntryOf(now, calls + 1, in.fragments)
          IN  /\ raises => saves
              /\ db.seq_fragments + Len(in.fragments) <= MaxFragId
              /\ db' = IF ~saves THEN db
                       ELSE IF raises THEN Rollback(db, working)
                       ELSE Commit(db, working)
              /\ IF raises THEN UNCHANGED <<files, stored, calls>>
                           ELSE AppLog(entry)
              /\ app' = [NoFlow EXCEPT !.flow = "scan",
                                       !.raised = raises,
                                       !.committed = saves /\ ~raises,
                                       !.audited = ~raises,
                                       !.entry = IF raises THEN <<>> ELSE entry]
    /\ pre' = db
    /\ UNCHANGED <<tx, pc, call, ret, erased, now, wr, linkVars, concVars,
                   session>>

\* "Lookup Entity": get_entity, and the access entry when it is found.
LookupFlow ==
    /\ pc = "idle" /\ calls < MaxCalls
    /\ \E eid \in EraseIds :
          LET entity_data == get_entity(db, eid)
              entry       == AccessEntryOf(now, calls + 1, eid)
          IN  /\ IF entity_data.found THEN AppLog(entry)
                 ELSE UNCHANGED <<files, stored, calls>>
              /\ app' = [NoFlow EXCEPT !.flow = "lookup", !.eid = eid,
                                       !.found = entity_data.found,
                                       !.audited = entity_data.found,
                                       !.entry = IF entity_data.found
                                                 THEN entry ELSE <<>>]
    /\ UNCHANGED <<storeVars, now, wr, linkVars, concVars, session>>

\* "Search": search_entities(query) and the table of the results.
SearchQueries == {<<"j", "o", "h", "n">>, <<"c", ".", "t">>}

SearchFlow ==
    /\ pc = "idle"
    /\ \E query \in SearchQueries :
          app' = [NoFlow EXCEPT !.flow = "search",
                                !.found = search_entities(db, query) # {}]
    /\ UNCHANGED <<storeVars, now, auditVars, linkVars, concVars, session>>

\* "Erase Entity": get_entity; when it is found erase_entity, and when that
\* returns True the erasure entry.
EraseFlow ==
    /\ pc = "idle" /\ calls < MaxCalls
    /\ db.seq_erasures < MaxErasureId
    /\ \E eid \in EraseIds, raises \in BOOLEAN :
          LET entity_data == get_entity(db, eid)
              reason      == "GDPR Article 17 - Right to Erasure"
              stmts       == EraseStatements(eid, "demo_user", reason)
              working     == ExecuteFirst(db, stmts, Len(stmts), now)
              entry       == ErasureEntryOf(now, calls + 1, eid,
                                 IF entity_data.found
                                 THEN entity_data.entity.fragment_count ELSE 0,
                                 reason)
              success     == entity_data.found /\ ~raises
          IN  /\ raises => entity_data.found
              /\ db' = IF ~entity_data.found THEN db
                       ELSE IF raises THEN Rollback(db, working)
                       ELSE Commit(db, working)
              /\ erased' = IF success THEN erased \cup {eid} ELSE erased
              /\ IF success THEN AppLog(entry)
                 ELSE UNCHANGED <<files, stored, calls>>
              /\ app' = [NoFlow EXCEPT !.flow = "erase", !.eid = eid,
                                       !.found = entity_data.found,
                                       !.raised = raises,
                                       !.committed = success,
                                       !.audited = success,
                                       !.entry = IF success THEN entry ELSE <<>>]
    /\ pre' = db
    /\ UNCHANGED <<tx, pc, call, ret, now, wr, linkVars, concVars, session>>

(***************************************************************************)
(* app.py, "Erase Entity" pressed in two browser sessions.  Streamlit runs *)
(* the script of each session in a thread of its own, so the two handlers  *)
(* run side by side, each statement of the store a step: the two SELECTs   *)
(* of get_entity, the three statements and the commit of erase_entity on a *)
(* connection of its own, then log_erasure_operation.  Each session        *)
(* presses the button once; the store is filled before the first press.    *)
(***************************************************************************)
Sessions == {"first", "second"}

IdleSession ==
    [pc |-> "idle", eid |-> None, existed |-> FALSE, met |-> FALSE,
     found |-> FALSE, frag_count |-> 0, k |-> 0, success |-> FALSE,
     raised |-> FALSE, audited |-> FALSE]

\* Whether the handler of session u is under way.
Handling(u) == session[u].pc \notin {"idle", "done"}

\* save_mapping fills the store, before any session has pressed the button.
SessionSeed ==
    /\ \A u \in Sessions : session[u].pc = "idle"
    /\ SeedStore

\* The button is pressed with an entity ID entered and the box ticked.
SessionClick(u) ==
    /\ session[u].pc = "idle"
    /\ \E eid \in EraseIds :
          /\ ~Falsy(eid)
          /\ session' = [v \in Sessions |->
                IF v = u
                THEN [IdleSession EXCEPT
                        !.pc = "select_entity", !.eid = eid,
                        !.existed = SelectEntity(db, eid) # {},
                        !.met = \E w \in Sessions \ {u} : Handling(w)]
                ELSE [session[v] EXCEPT !.met = @ \/ Handling(v)]]
    /\ UNCHANGED <<storeVars, now, auditVars, linkVars, concVars, app>>

\* get_entity: SELECT * FROM entities WHERE entity_id=?; without a row the
\* handler shows "not found" and ends.
SessionSelectEntity(u) ==
    /\ session[u].pc = "select_entity"
    /\ LET rows == SelectEntity(db, session[u].eid)
       IN  session' = [session EXCEPT ![u] =
              IF rows = {} THEN [@ EXCEPT !.pc = "done"]
              ELSE [@ EXCEPT !.pc = "select_fragments",
                             !.found = TRUE,
                             !.frag_count =
                                 (CHOOSE e \in rows : TRUE).fragment_count]]
    /\ UNCHANGED <<storeVars, now, auditVars, linkVars, concVars, app>>

\* get_entity: the SELECT on fragments and the return of the dict, which is
\* truthy whatever the fragments are.
SessionSelectFragments(u) ==
    /\ session[u].pc = "select_fragments"
    /\ session' = [session EXCEPT ![u].pc = "erase"]
    /\ UNCHANGED <<storeVars, now, auditVars, linkVars, concVars, app>>

\* erase_entity: cur.execute of its next statement; the first one opens the
\* write transaction, when no other connection holds one.
SessionExecute(u) ==
    /\ session[u].pc = "erase"
    /\ session[u].k < 3
    /\ session[u].k = 0 => Reservable(writers, u)
    /\ image' = Execute(IF writers = {} THEN db ELSE image,
                        EraseStatements(session[u].eid, "demo_user",
                            "GDPR Article 17 - Right to Erasure")
                                [session[u].k + 1], now)
    /\ writers' = writers \cup {u}
    /\ session' = [session EXCEPT ![u].k = @ + 1]
    /\ UNCHANGED <<storeVars, now, auditVars, linkVars, proc, base, app>>

\* erase_entity: the first statement finds another connection's write
\* transaction and the wait runs out; sqlite3.OperationalError leaves the
\* handler.
SessionBusy(u) ==
    /\ session[u].pc = "erase"
    /\ session[u].k = 0
    /\ ~Reservable(writers, u)
    /\ session' = [session EXCEPT ![u].pc = "done", ![u].raised = TRUE]
    /\ UNCHANGED <<storeVars, now, auditVars, linkVars, concVars, app>>

\* erase_entity: con.commit(); con.close(); return True.
SessionCommit(u) ==
    /\ session[u].pc = "erase"
    /\ session[u].k = 3
    /\ db' = Commit(db, image)
    /\ writers' = writers \ {u}
    /\ session' = [session EXCEPT ![u].pc = "log", ![u].success = TRUE]
    /\ UNCHANGED <<tx, pc, call, ret, pre, erased, now, auditVars, linkVars,
                   image, proc, base, app>>

\* "if success:" log_erasure_operation(...), run to its end.
SessionLog(u) ==
    /\ session[u].pc = "log"
    /\ AppLog(ErasureEntryOf(now, calls + 1, session[u].eid,
                             session[u].frag_count,
                             "GDPR Article 17 - Right to Erasure"))
    /\ session' = [session EXCEPT ![u].pc = "done", ![u].audited = TRUE]
    /\ UNCHANGED <<storeVars, now, wr, linkVars, concVars, app>>

(***************************************************************************)
(* The store: initial state and next-state relation.                       *)
(***************************************************************************)
Init ==
    /\ db = EmptyDb
    /\ tx = EmptyDb
    /\ pc = "idle"
    /\ call = NoCall
    /\ ret = "None"
    /\ pre = EmptyDb
    /\ erased = {}
    /\ now = 0
    /\ files = <<>>
    /\ wr = [c \in AuditCallers |-> IdleWriter]
    /\ stored = {}
    /\ calls = 0
    /\ leftover = 0
    /\ linked = <<>>
    /\ writers = {}
    /\ image = EmptyDb
    /\ proc = [p \in StoreProcs |-> IdleProc]
    /\ base = EmptyDb
    /\ app = NoFlow
    /\ session = [u \in Sessions |-> IdleSession]

Next ==
    \/ ScanAndLink
    \/ SaveAssignment
    \/ Erase
    \/ Return
    \/ Tick

Spec == Init /\ [][Next]_vars

(***************************************************************************)
(* The audit trail: next-state relations.                                  *)
(***************************************************************************)
AuditNext ==
    \/ log_scan_operation
    \/ log_linking_operation
    \/ log_erasure_operation
    \/ log_access_operation
    \/ Tick

AuditSpec == Init /\ [][AuditNext]_vars

AuditConcNext ==
    \/ \E c \in AuditCallers : LogBegin(c)
    \/ \E c \in AuditCallers : WriteName(c)
    \/ \E c \in AuditCallers : WriteOpen(c)
    \/ \E c \in AuditCallers : WriteClose(c)
    \/ Tick

AuditConcSpec == Init /\ [][AuditConcNext]_vars

\* The flows of the app, on a store that save_mapping also fills directly.
AppNext ==
    \/ ScanFlow
    \/ LookupFlow
    \/ SearchFlow
    \/ EraseFlow
    \/ SeedStore
    \/ Return
    \/ Tick

AppSpec == Init /\ [][AppNext]_vars

LinkNext ==
    \/ Cluster
    \/ Forget

LinkSpec == Init /\ [][LinkNext]_vars

ConcNext ==
    \/ SaveBegin
    \/ EraseBegin
    \/ \E w \in StoreWriters : WriterExecute(w)
    \/ \E w \in StoreWriters : WriterBusy(w)
    \/ \E w \in StoreWriters : WriterCommit(w)
    \/ ReadBegin
    \/ GetEntityStep
    \/ GetStatisticsStep
    \/ ConcSettle

ConcSpec == Init /\ [][ConcNext]_vars

\* Two sessions in the erase handler, on a store filled beforehand.
RaceNext ==
    \/ SessionSeed
    \/ Return
    \/ Tick
    \/ \E u \in Sessions : SessionClick(u)
    \/ \E u \in Sessions : SessionSelectEntity(u)
    \/ \E u \in Sessions : SessionSelectFragments(u)
    \/ \E u \in Sessions : SessionExecute(u)
    \/ \E u \in Sessions : SessionBusy(u)
    \/ \E u \in Sessions : SessionCommit(u)
    \/ \E u \in Sessions : SessionLog(u)

RaceSpec == Init /\ [][RaceNext]_vars

(***************************************************************************)
(* Properties of the store, checked under Spec.                            *)
(***************************************************************************)
EntityExists(s, eid) == \E e \in s.entities : e.entity_id = eid

Returned(op) == pc = "returned" /\ call.op = op

\* C1 (fragment-count consistency): in every committed state, each entity row
\* has fragment_count equal to the number of fragment rows that carry its ID.
C1_FragmentCountConsistent ==
    \A e \in db.entities :
        e.fragment_count =
            Cardinality({k \in DOMAIN db.fragments :
                            db.fragments[k].entity_id = e.entity_id})

\* An erasure has just committed and left behind an entity with fragments,
\* saved earlier.
C1_Witness ==
    /\ Returned("erase_entity") /\ ret = "True"
    /\ EntityExists(pre, call.eid)
    /\ \E e \in db.entities : e.fragment_count >= 1

\* C2 (referential integrity): in every committed state, each fragment row's
\* entity_id is null or the ID of an entity row that exists.
C2_ReferentialIntegrity ==
    \A k \in DOMAIN db.fragments :
        \/ db.fragments[k].entity_id = None
        \/ EntityExists(db, db.fragments[k].entity_id)

\* An erasure has just removed the fragments of one entity and kept others.
C2_Witness ==
    /\ Returned("erase_entity") /\ ret = "True"
    /\ Len(db.fragments) >= 1
    /\ Len(db.fragments) < Len(pre.fragments)

\* C3 (erasure completeness): after erase_entity(id, requestedBy, reason)
\* returns True on an existing entity, get_entity(id) finds nothing, no
\* fragment row references id, and erasures holds the records it held before
\* and one more, which carries id, requestedBy and reason.
C3_ErasureComplete ==
    (Returned("erase_entity") /\ ret = "True" /\ EntityExists(pre, call.eid))
    => /\ ~get_entity(db, call.eid).found
       /\ \A k \in DOMAIN db.fragments : db.fragments[k].entity_id # call.eid
       /\ Len(db.erasures) = Len(pre.erasures) + 1
       /\ SubSeq(db.erasures, 1, Len(pre.erasures)) = pre.erasures
       /\ LET record == db.erasures[Len(db.erasures)]
          IN  /\ record.entity_id = call.eid
              /\ record.requested_by = call.requested_by
              /\ record.reason = call.reason

\* erase_entity has just returned True for an entity that had fragments.
C3_Witness ==
    /\ Returned("erase_entity") /\ ret = "True"
    /\ get_entity(pre, call.eid).found
    /\ Len(get_entity(pre, call.eid).fragments) >= 2

\* C4 (erasure of an unknown ID), as claimed: erase_entity on an ID that has
\* no entity row returns False and leaves the three relations unchanged.
C4_EraseUnknownIsNoOp ==
    (Returned("erase_entity") /\ ret # "raised" /\ ~EntityExists(pre, call.eid))
    => /\ ret = "False"
       /\ db.entities = pre.entities
       /\ db.fragments = pre.fragments
       /\ db.erasures = pre.erasures

\* The mapping cluster_fragments returns for the batch, at some threshold.
IsLinkerMapping(mapping, fragments) ==
    \E t \in Thresholds :
        /\ ~Clustering[<<fragments, t>>].raised
        /\ mapping = LinkerDict(Clustering[<<fragments, t>>].mapping)

\* C5 (linker-to-store persistence), as claimed: after save_mapping is called
\* with the mapping cluster_fragments returned for the batch and the batch,
\* the store holds an entity row for each cluster and a new fragment row for
\* each fragment of the batch, referencing its cluster's ID; for the three
\* emails at 0.85 on an empty store, two entities with fragment_count 2 and
\* 1 and total_entities = 2.
C5_LinkerMappingPersisted ==
    (Returned("save_mapping") /\ ret = "None"
        /\ IsLinkerMapping(call.mapping, call.fragments))
    => /\ \A j \in 1..Len(call.mapping) :
            /\ EntityExists(db, call.mapping[j].value.entity_id)
            /\ Cardinality({k \in (Len(pre.fragments) + 1)..Len(db.fragments) :
                    db.fragments[k].entity_id = call.mapping[j].value.entity_id})
                 = Len(call.mapping[j].value.members)
       /\ Len(db.fragments) = Len(pre.fragments) + Len(call.fragments)
       /\ (/\ call.fragments = ThreeEmails
           /\ pre = EmptyDb
           /\ call.mapping = LinkerDict(Clustering[<<ThreeEmails, 85>>].mapping))
          => /\ {e.fragment_count : e \in db.entities} = {1, 2}
             /\ get_statistics(db).total_entities = 2

\* C6 (atomicity under failure): when save_mapping or erase_entity ends in an
\* exception raised by one of its statements or by commit(), the committed
\* entities, fragments and erasures are what they were before the call.
C6_AtomicOnFailure ==
    (pc = "returned" /\ ret = "raised") => db = pre

\* save_mapping has just failed after it had inserted an entity and a
\* fragment on its connection.
C6_Witness ==
    /\ Returned("save_mapping") /\ ret = "raised"
    /\ Len(tx.fragments) > Len(pre.fragments)
    /\ tx.entities # pre.entities

\* C7 (entity IDs are never reused), as claimed: once erase_entity(id) has
\* erased an entity, no entity row ever has that ID again.
C7_ErasedIdNeverReassigned ==
    \A e \in db.entities : e.entity_id \notin erased

\* C16 (confidence is frozen at creation): after a save_mapping that
\* returns, every entity row that existed before the call is still there
\* with the confidence and the created_at it had; only its fragment_count
\* may differ.
C16_ConfidenceFrozen ==
    (Returned("save_mapping") /\ ret # "raised") =>
        \A e \in pre.entities :
            \E e2 \in db.entities :
                e2 = [e EXCEPT !.fragment_count = e2.fragment_count]

\* A save_mapping returned that added fragments to an entity created at an
\* earlier second and supplied another confidence for it.
C16_Witness ==
    /\ Returned("save_mapping") /\ ret # "raised"
    /\ \E e \in pre.entities :
          /\ e.created_at < now
          /\ CountFragments(db, e.entity_id) > e.fragment_count
          /\ LET stmts == SaveStatements(call.mapping, call.fragments)
             IN  \E k \in 1..Len(stmts) :
                    /\ stmts[k].kind = "insert_entity"
                    /\ stmts[k].eid = e.entity_id
                    /\ stmts[k].confidence # e.confidence

\* The entity ID the mapping gives the fragment at 0-based index i, or None.
MappedId(mapping, i) ==
    FieldGet(DictGet(mapping, IntKey(i), EmptyDict), "entity_id", None)

\* The 0-based indices of the batch that have an entity ID in the mapping,
\* in order.
MappedIndices(mapping, fragments) ==
    SelectSeq([i \in 1..Len(fragments) |-> i - 1],
              LAMBDA i : ~Falsy(MappedId(mapping, i)))

\* The entity rows of a store without their fragment_count.
EntityRows(s) == {[e EXCEPT !.fragment_count = 0] : e \in s.entities}

\* C25 (save_mapping is additive): a save_mapping call that returns leaves
\* every fragment row stored before it in place and adds, after them, one
\* row with a new frag_id for each index of the batch that has an entity ID
\* in the mapping, in order, and no other, whatever rows are stored already;
\* the entities are those stored before and those of the mapped indices, and
\* each one's fragment_count has grown by the number of indices mapped to
\* it.  When the store before the call is what the same call leaves on an
\* empty store, the call has doubled the fragment rows and every
\* fragment_count, and the entity rows are otherwise the same.
C25_SaveMappingAdditive ==
    (Returned("save_mapping") /\ ret = "None") =>
        LET mapping   == call.mapping
            fragments == call.fragments
            mapped    == MappedIndices(mapping, fragments)
            stmts     == SaveStatements(mapping, fragments)
            old       == Len(pre.fragments)
        IN  /\ Len(db.fragments) = old + Len(mapped)
            /\ SubSeq(db.fragments, 1, old) = pre.fragments
            /\ \A j \in 1..Len(mapped) :
                  LET row == db.fragments[old + j]
                      f   == fragments[mapped[j] + 1]
                  IN  /\ row.entity_id = MappedId(mapping, mapped[j])
                      /\ row.frag_type = f.type
                      /\ row.value = f.value
                      /\ row.source = f.source
                      /\ row.frag_id > pre.seq_fragments
                      /\ \A k \in 1..(old + j - 1) :
                            db.fragments[k].frag_id # row.frag_id
            /\ {e.entity_id : e \in db.entities}
                  = {e.entity_id : e \in pre.entities}
                        \cup {MappedId(mapping, mapped[j]) :
                                j \in 1..Len(mapped)}
            /\ \A e \in db.entities :
                  e.fragment_count
                    = CountFragments(pre, e.entity_id)
                        + Cardinality({j \in 1..Len(mapped) :
                            MappedId(mapping, mapped[j]) = e.entity_id})
            /\ \A timestamp \in 0..MaxClock :
                  pre = Commit(EmptyDb, ExecuteFirst(EmptyDb, stmts,
                                                     Len(stmts), timestamp))
                    => /\ Len(db.fragments) = 2 * Len(pre.fragments)
                       /\ EntityRows(db) = EntityRows(pre)
                       /\ \A e \in db.entities :
                             \E o \in pre.entities :
                                /\ o.entity_id = e.entity_id
                                /\ e.fragment_count = 2 * o.fragment_count

\* save_mapping has returned from the second of two equal calls on a batch
\* of two fragments, one of which has an entity ID in the mapping: its
\* entity has two equal fragments and the other fragment has none.
C25_Witness ==
    /\ Returned("save_mapping") /\ ret = "None"
    /\ Len(call.fragments) = 2
    /\ Len(MappedIndices(call.mapping, call.fragments)) = 1
    /\ Len(pre.fragments) = 1
    /\ Len(db.fragments) = 2
    /\ db.fragments[1].source = db.fragments[2].source
    /\ db.fragments[1].entity_id = db.fragments[2].entity_id
    /\ \E e \in db.entities : e.fragment_count = 2
    /\ \E timestamp \in 0..MaxClock :
          LET stmts == SaveStatements(call.mapping, call.fragments)
          IN  pre = Commit(EmptyDb, ExecuteFirst(EmptyDb, stmts,
                                                 Len(stmts), timestamp))

(***************************************************************************)
(* Properties of the audit trail, checked under AuditSpec (one caller) and *)
(* AuditConcSpec (concurrent callers).                                     *)
(***************************************************************************)
\* The instant an entry was stamped with: <<second, instant>> of its
\* "timestamp_utc" item.
StampOf(entry) == <<entry[2].s, entry[2].u>>

Later(x, y) == x[1] > y[1] \/ (x[1] = y[1] /\ x[2] > y[2])

\* C8 (audit append), as claimed: after N log_*_operation calls on an empty
\* trail, whatever the time between them, get_recent_logs(N) returns exactly
\* N entries, the entries of those calls, newest first.
C8_AppendExactlyOne ==
    LET recent == get_recent_logs(files, calls)
    IN  /\ ~recent.raised
        /\ Len(recent.logs) = calls
        /\ {recent.logs[k] : k \in 1..Len(recent.logs)}
             = {r.entry : r \in stored}
        /\ \A i, j \in 1..Len(recent.logs) :
              i < j => Later(StampOf(recent.logs[i]), StampOf(recent.logs[j]))

\* C9 (audit immutability), as claimed: the file a completed call stored its
\* entry in holds that entry, unchanged, in every later state.
C9_StoredEntryImmutable ==
    \A r \in stored :
        /\ r.path \in DOMAIN files
        /\ files[r.path] = JsonDump(r.entry)

\* C10 (concurrent appends do not collide), as claimed: two calls in _write
\* at the same time have different paths, and once they have all returned
\* every entry written is in some file, whole, and no file mixes two entries.
C10_ConcurrentAppendsDistinct ==
    /\ \A c, d \in AuditCallers :
          (c # d /\ wr[c].pc \in {"open", "dump"} /\ wr[d].pc \in {"open", "dump"})
          => wr[c].path # wr[d].path
    /\ AllIdle =>
          /\ \A r \in stored :
                \E p \in DOMAIN files : files[p] = JsonDump(r.entry)
          /\ \A p \in DOMAIN files : JsonValid(files[p])


(***************************************************************************)
(* Properties of the store under concurrent calls, checked under ConcSpec. *)
(***************************************************************************)
\* C11 (snapshot reads), as claimed: what a get_entity or get_statistics
\* call returns is what it would have computed on one of the contents that
\* were committed while it ran: the one it started on, or the one a
\* save_mapping or erase_entity committed meanwhile.  In particular the
\* fragment_count get_entity returns is the number of fragments it returns.
C11_SnapshotReads ==
    proc["reader"].pc = "done" =>
        \E s \in proc["reader"].seen :
            IF proc["reader"].op = "get_entity"
            THEN proc["reader"].entity = get_entity(s, proc["reader"].eid)
            ELSE proc["reader"].statistics = get_statistics(s)

\* Every statement of stmts run in order on s.
RunAll(s, stmts) == ExecuteFirst(s, stmts, Len(stmts), now)

Succeeded(w) == proc[w].pc = "done" /\ proc[w].ret # "raised"

\* C12 (write serialization): at most one of save_mapping and erase_entity
\* holds a write transaction at any time, and when both have ended the
\* committed contents are those of running the ones that did not raise one
\* after the other, in one of the two orders, on the contents they started
\* from; the one that raised has changed nothing.
C12_WritesSerialized ==
    /\ Cardinality(writers) <= 1
    /\ (proc["saver"].pc = "done" /\ proc["eraser"].pc = "done") =>
        LET S == proc["saver"].stmts
            E == proc["eraser"].stmts
        IN  CASE Succeeded("saver") /\ Succeeded("eraser") ->
                    db \in {RunAll(RunAll(base, S), E),
                            RunAll(RunAll(base, E), S)}
              [] Succeeded("saver") /\ ~Succeeded("eraser") ->
                    db = RunAll(base, S)
              [] ~Succeeded("saver") /\ Succeeded("eraser") ->
                    db = RunAll(base, E)
              [] OTHER -> db = base

\* Both calls ended without raising, one started while the other was under
\* way, and the entity erased is one save_mapping added a fragment to and
\* that existed before.
C12_Witness ==
    /\ Succeeded("saver") /\ Succeeded("eraser")
    /\ proc["saver"].met \/ proc["eraser"].met
    /\ EntityExists(base, proc["eraser"].eid)
    /\ \E k \in 1..Len(proc["saver"].stmts) :
            /\ proc["saver"].stmts[k].kind = "insert_fragment"
            /\ proc["saver"].stmts[k].eid = proc["eraser"].eid

ThresholdInRange(t) == t[1] > 0 /\ FracGeq(<<1, 1>>, t)

\* C14 (threshold validation), as claimed: a call with a threshold outside
\* (0, 1] raises before it assigns any fragment: no cluster exists and no
\* row has an entity ID.
C14_ThresholdValidated ==
    \A n \in 1..Len(linked) :
        ~ThresholdInRange(linked[n].score_threshold) =>
            /\ linked[n].result.raised
            /\ linked[n].result.mapping = <<>>
            /\ \A i \in 1..Len(linked[n].result.df) :
                    linked[n].result.df[i].entity_id = None

\* A fragment without a usable value: the key is missing, or it is None.
Unusable(f) == f.value = Missing \/ f.value = None

\* Whether the fragment with this source is a member of some cluster.
IsMember(result, source) ==
    \E k \in 1..Len(result.mapping) :
        \E j \in 1..Len(result.mapping[k].members) :
            result.mapping[k].members[j].source = source

\* C15 (unusable values), as claimed: in a call whose batch has fragments
\* without a usable value the call does not raise, those fragments get no
\* entity ID and are members of no cluster, and every other fragment of the
\* batch is clustered.
C15_UnusableValuesSkipped ==
    \A n \in 1..Len(linked) :
        LET F      == linked[n].fragments
            result == linked[n].result
        IN  (\E i \in 1..Len(F) : Unusable(F[i])) =>
                /\ ~result.raised
                /\ \A i \in 1..Len(F) :
                      IF Unusable(F[i])
                      THEN /\ result.df[i].entity_id = None
                           /\ ~IsMember(result, F[i].source)
                      ELSE /\ result.df[i].entity_id # None
                           /\ IsMember(result, F[i].source)

\* The fragments before fragment i that the call put into cluster k.
MembersBefore(result, k, i) ==
    {j \in 1..(i - 1) :
        result.df[j].entity_id = result.mapping[k].entity_id}

\* The greatest similarity of fragment i's lower-cased value to the
\* lower-cased values of the fragments before it in cluster k.
SimilarityBefore(F, result, k, i) ==
    FracMax({Ratio(Lower(F[i].value), Lower(F[j].value)) :
                j \in MembersBefore(result, k, i)})

\* Whether cluster k had members before fragment i that reach t with it.
Reaches(F, result, k, i, t) ==
    /\ MembersBefore(result, k, i) # {}
    /\ FracGeq(SimilarityBefore(F, result, k, i), t)

AllUsable(F) == \A i \in 1..Len(F) : ~Unusable(F[i])

\* The sources of the fragments the call gave the ID of cluster k, in input
\* order.
SourcesOf(F, result, k) ==
    LET rows == SelectSeq([i \in 1..Len(F) |->
                             [source |-> F[i].source,
                              entity_id |-> result.df[i].entity_id]],
                          LAMBDA r : r.entity_id = result.mapping[k].entity_id)
    IN  [j \in 1..Len(rows) |-> rows[j].source]

\* C20 (first-match assignment): in a call that returns, on a batch whose
\* values are all strings, every fragment is a member of exactly one
\* cluster, the one whose ID it is given.  That cluster is the first one,
\* in creation order, whose members among the earlier fragments reach the
\* threshold with it, even when a later cluster is more similar; when no
\* cluster reaches it, it is a new cluster, created after all the others
\* that have members by then.  It is stated of the latest call, which every
\* call is in the state it leaves.
C20_FirstMatch ==
    linked # <<>> =>
        LET F      == linked[Len(linked)].fragments
            t      == linked[Len(linked)].score_threshold
            result == linked[Len(linked)].result
            K      == 1..Len(result.mapping)
        IN  (AllUsable(F) /\ ~result.raised /\ F # <<>>) =>
              /\ \A k \in K :
                    [j \in 1..Len(result.mapping[k].members) |->
                        result.mapping[k].members[j].source]
                            = SourcesOf(F, result, k)
              /\ \A k1, k2 \in K :
                    k1 # k2 => result.mapping[k1].entity_id
                                    # result.mapping[k2].entity_id
              /\ \A i \in 1..Len(F) :
                    \E k \in K :
                        /\ result.df[i].entity_id = result.mapping[k].entity_id
                        /\ \A k2 \in 1..(k - 1) :
                              /\ MembersBefore(result, k2, i) # {}
                              /\ ~Reaches(F, result, k2, i, t)
                        /\ IF MembersBefore(result, k, i) # {}
                           THEN Reaches(F, result, k, i, t)
                           ELSE \A k2 \in K :
                                    MembersBefore(result, k2, i) # {} => k2 < k

\* A fragment joined a cluster although a cluster created later was more
\* similar to it and reached the threshold too.
C20_Witness ==
    \E n \in 1..Len(linked) :
        LET F      == linked[n].fragments
            t      == linked[n].score_threshold
            result == linked[n].result
        IN  /\ AllUsable(F) /\ ~result.raised
            /\ \E i \in 1..Len(F) :
                 \E k, k2 \in 1..Len(result.mapping) :
                    /\ k < k2
                    /\ result.df[i].entity_id = result.mapping[k].entity_id
                    /\ Reaches(F, result, k, i, t)
                    /\ Reaches(F, result, k2, i, t)
                    /\ ~FracGeq(SimilarityBefore(F, result, k, i),
                                SimilarityBefore(F, result, k2, i))

\* The lower-cased text the loop compares row i by: str(value).lower().
ComparedText(result, i) == Lower(PyStr(result.df[i].value))

\* The clusters that had members before row i and reach t with it.
ReachedBy(result, i, t) ==
    {k \in 1..Len(result.mapping) :
        /\ MembersBefore(result, k, i) # {}
        /\ FracGeq(FracMax({Ratio(ComparedText(result, i),
                                  Lower(result.df[j].value)) :
                                j \in MembersBefore(result, k, i)}), t)}

\* Whether row i is the first row of the table with its entity ID.
Founds(result, i) ==
    /\ result.df[i].entity_id # None
    /\ \A j \in 1..(i - 1) :
          result.df[j].entity_id # result.df[i].entity_id

\* C21 (new-cluster allocation): in a call that runs the loop and returns,
\* a fragment founds a new cluster exactly when no cluster that exists by
\* then reaches the threshold with it; the k clusters have the IDs E-000001
\* to E-<k>, in the order their founders come in the batch, the table holds
\* these IDs and no other, and a founder's score is 1.0.  It is stated of
\* the latest call.
C21_NewClusterAllocation ==
    linked # <<>> =>
        LET F      == linked[Len(linked)].fragments
            t      == linked[Len(linked)].score_threshold
            result == linked[Len(linked)].result
            K      == 1..Len(result.mapping)
            I      == 1..Len(result.df)
        IN  (HasValueColumn(F) /\ ~result.raised) =>
              /\ \A i \in I : Founds(result, i) <=> ReachedBy(result, i, t) = {}
              /\ \A k \in K : result.mapping[k].entity_id = EntityIdOf(k)
              /\ {result.df[i].entity_id : i \in I}
                    = {EntityIdOf(k) : k \in K}
              /\ \A k1, k2 \in K :
                    k1 < k2 =>
                        \E i1, i2 \in I :
                            /\ i1 < i2
                            /\ Founds(result, i1) /\ Founds(result, i2)
                            /\ result.df[i1].entity_id = EntityIdOf(k1)
                            /\ result.df[i2].entity_id = EntityIdOf(k2)
              /\ \A i \in I :
                    Founds(result, i) => result.df[i].score = <<1, 1>>

\* A call made two clusters of three fragments: the second fragment founded
\* E-000002 with score 1.0 and the third one joined a cluster.
C21_Witness ==
    /\ linked # <<>>
    /\ LET result == linked[Len(linked)].result
       IN  /\ ~result.raised
           /\ Len(result.df) = 3
           /\ Len(result.mapping) = 2
           /\ Founds(result, 2)
           /\ result.df[2].entity_id = EntityIdOf(2)
           /\ result.df[2].score = <<1, 1>>
           /\ ~Founds(result, 3)

\* Whether no fragment of the batch has a "value" (so the empty batch).
NoValueField(F) == \A i \in 1..Len(F) : F[i].value = Missing

\* C23 (empty input): a call on the empty list, or on a batch in which no
\* fragment has a "value", returns without an exception, with an empty
\* mapping and a table that has one row for each fragment, none of them
\* with an entity ID or a score above 0.0.
C23_EmptyInput ==
    \A n \in 1..Len(linked) :
        LET F      == linked[n].fragments
            result == linked[n].result
        IN  NoValueField(F) =>
              /\ ~result.raised
              /\ result.mapping = <<>>
              /\ Len(result.df) = Len(F)
              /\ \A i \in 1..Len(result.df) :
                    /\ result.df[i].entity_id = None
                    /\ result.df[i].score = <<0, 1>>

\* The empty list was clustered, and then a batch of two fragments without
\* a "value".
C23_Witness ==
    /\ Len(linked) = 2
    /\ linked[1].fragments = <<>>
    /\ linked[2].fragments # <<>>
    /\ NoValueField(linked[2].fragments)
    /\ linked[2].result.mapping = <<>>

\* The input indices the call gave the ID of cluster k, in input order.
IndicesOf(result, k) ==
    SelectSeq([i \in 1..Len(result.df) |-> i],
              LAMBDA i : result.df[i].entity_id = result.mapping[k].entity_id)

\* C24 (partition): a call on a batch whose values are all strings returns,
\* and then the clusters have different IDs, each has a member, the members
\* of each are the rows of the input indices given its ID, in input order,
\* every index is given the ID of a cluster, and there are at most as many
\* clusters as fragments.  It is stated of the latest call.
C24_Partition ==
    linked # <<>> =>
        LET F      == linked[Len(linked)].fragments
            result == linked[Len(linked)].result
            K      == 1..Len(result.mapping)
        IN  AllUsable(F) =>
              /\ ~result.raised
              /\ Len(result.df) = Len(F)
              /\ \A k1, k2 \in K :
                    k1 # k2 => result.mapping[k1].entity_id
                                    # result.mapping[k2].entity_id
              /\ \A k \in K :
                    /\ result.mapping[k].members # <<>>
                    /\ result.mapping[k].members
                         = [j \in 1..Len(IndicesOf(result, k)) |->
                               DataFrame(F)[IndicesOf(result, k)[j]]]
              /\ \A i \in 1..Len(F) :
                    \E k \in K :
                        result.df[i].entity_id = result.mapping[k].entity_id
              /\ Len(result.mapping) <= Len(F)

\* A batch of three strings was split into a cluster of two members, which
\* are not next to each other in the batch, and a cluster of one.
C24_Witness ==
    /\ linked # <<>>
    /\ LET F      == linked[Len(linked)].fragments
           result == linked[Len(linked)].result
       IN  /\ AllUsable(F)
           /\ Len(F) = 3
           /\ Len(result.mapping) = 2
           /\ IndicesOf(result, 1) = <<1, 3>>
           /\ IndicesOf(result, 2) = <<2>>

(***************************************************************************)
(* More properties of the audit trail, checked under AuditSpec.            *)
(***************************************************************************)
\* C19 (audit operation tag), as claimed: the entry of every file of the
\* trail starts with an "operation" item whose value is one of scan, link,
\* access and erasure; a linking operation is recorded as link.
C19_OperationTag ==
    \A path \in DOMAIN files :
        JsonValid(files[path]) =>
            /\ JsonLoad(files[path])[1].k = "operation"
            /\ JsonLoad(files[path])[1].v \in {"scan", "link", "access", "erasure"}

(***************************************************************************)
(* Properties of the flows of app.py, checked under AppSpec.               *)
(***************************************************************************)
\* The entries of the audit trail: what json.load gives for its files.
TrailEntries ==
    {JsonLoad(files[p]) : p \in {q \in DOMAIN files : JsonValid(files[q])}}

\* The value an entry has for a key.
EntryValue(entry, key) ==
    entry[CHOOSE k \in 1..Len(entry) : entry[k].k = key].v

\* Whether entry records the erasure of the entity eid.
IsErasureOf(entry, eid) ==
    /\ EntryValue(entry, "operation") = "erasure"
    /\ EntryValue(entry, "entity_id") = IdText(eid)

\* C17 (store change and audit entry go together), as claimed: in every
\* state the Erasure Records of the store and the erasure entries of the
\* audit trail match, each erased entity having its entry and each entry its
\* record; and a save or erase handler whose store call raised has left the
\* store as it was and written no entry.
C17_StoreAndAuditTogether ==
    /\ \A k \in 1..Len(db.erasures) :
          \E entry \in TrailEntries :
              IsErasureOf(entry, db.erasures[k].entity_id)
    /\ \A entry \in TrailEntries :
          EntryValue(entry, "operation") = "erasure" =>
              \E k \in 1..Len(db.erasures) :
                  IsErasureOf(entry, db.erasures[k].entity_id)
    /\ (pc = "idle" /\ app.flow \in {"scan", "erase"} /\ app.raised) =>
          db = pre /\ ~app.audited

\* C18 (every privileged read is audited), as claimed: when a lookup by ID
\* (found or not), a search, or an erasure that was carried out has ended,
\* its handler has written an entry, of operation access for a lookup or a
\* search and erasure for an erasure, and the trail holds it.
C18_PrivilegedReadsAudited ==
    (\/ app.flow = "lookup"
     \/ app.flow = "search"
     \/ app.flow = "erase" /\ app.committed) =>
        /\ app.audited
        /\ app.entry \in TrailEntries
        /\ EntryValue(app.entry, "operation") =
                IF app.flow = "erase" THEN "erasure" ELSE "access"


(***************************************************************************)
(* Properties of concurrent erase handlers, checked under RaceSpec.        *)
(***************************************************************************)
\* The files of the trail that hold an erasure entry for the entity eid.
ErasureFilesOf(eid) ==
    {p \in DOMAIN files :
        JsonValid(files[p]) /\ IsErasureOf(JsonLoad(files[p]), eid)}

\* The Erasure Records of the store for the entity eid.
ErasureRecordsOf(eid) ==
    {k \in 1..Len(db.erasures) : db.erasures[k].entity_id = eid}

\* C22 (concurrent erasure requests), as claimed: when the erase handlers of
\* two sessions for the same entity ID have run side by side and ended, on
\* an entity that existed when the first of them began and with no
\* save_mapping in between, exactly one of them succeeded and the store
\* holds exactly one Erasure Record and the trail exactly one erasure entry
\* for that ID.
C22_ConcurrentErasureOnce ==
    \A eid \in EraseIds :
        (/\ \A u \in Sessions :
                /\ session[u].pc = "done"
                /\ session[u].eid = eid
                /\ session[u].met
         /\ \E u \in Sessions : session[u].existed)
            => /\ Cardinality({u \in Sessions : session[u].success}) = 1
               /\ Cardinality(ErasureRecordsOf(eid)) = 1
               /\ Cardinality(ErasureFilesOf(eid)) = 1

=============================================================================
